---- MODULE Spec2Model ----
(***************************************************************************)
(* Model of leptos_reactive/src/scope.rs: the scope tree of the reactive   *)
(* runtime.  A Runtime owns an arena (slot map) of ScopeStates; a Scope is *)
(* a copyable handle (runtime, ScopeId).  User closures (the f of          *)
(* create_scope / child_scope / untrack, and cleanup callbacks) are        *)
(* modelled by a "closure" frame on the call stack: while such a frame is  *)
(* on top (or the stack is empty: top-level code), any public operation    *)
(* may be called.  Library code runs deterministically frame by frame.     *)
(***************************************************************************)
EXTENDS Integers, Sequences, FiniteSets, TLC

VARIABLES
    slots,          \* slots[r]: the slot vector of runtime r's arena (Runtime.scopes)
    free,           \* free[r]: the free list of runtime r's arena, head first
    untracked,      \* untracked[r]: the runtime's "tracking suppressed" flag
    shared_context, \* shared_context[r]: <<>> (None) or <<SharedContext>>
    stack,          \* the call stack, bottom first
    disposers,      \* ScopeDisposers returned and not yet consumed
    panicked,       \* "none", or what panicked and ended the program: "user" (a
                    \* closure), or the function whose borrow of the arena failed
    ran,            \* history: the cleanups invoked, in order
    cleared,        \* history: the clear_dependencies calls made, in order
    pushedEffects,  \* history: the effects pushed on a live scope
    fragments,      \* the pending fragments registered, with their channels
    disposedIds,    \* history: disposedIds[r] = the ScopeIds removed from arena r
    keys,           \* history: keys[r] = the hydration keys returned on runtime r
    fvalue,         \* history: fvalue[r] = <<v>> once the root closure of r returned v
    result,         \* history: result[r] = <<v>> once run_scope* on r returned v
    lastExit,       \* history: <<>> or <<how the most recent untrack call ended>>
    registered,     \* history: the cleanups registered on a live scope
    edges           \* history: <<parent, child>> for each child created under a live parent

vars == <<slots, free, untracked, shared_context, stack, disposers, panicked,
          ran, cleared, pushedEffects, fragments, disposedIds, keys, fvalue, result, lastExit, registered, edges>>

----
\* Bounds of the model.
MaxTrees == 1       \* runtimes created where the claims are about one scope tree
MaxRuns == 2        \* runtimes created where the claims compare independent runs
MaxScopes == 2      \* ScopeStates inserted, over all runtimes
MaxCleanups == 2    \* cleanups registered, over all scopes
MaxNodes == 3       \* nodes held by the live scopes, over all containers
MaxUntrack == 2     \* nesting depth of untrack
MaxKeys == 2        \* keys requested per runtime
MaxCtxScopes == 3   \* ScopeStates inserted where the claims are about contexts
MaxFragments == 2   \* fragments registered where the claims are about the registry
MaxWaiting == 1     \* fragments registered where the claims are about their resolution
MaxPending == 1     \* largest pending-resources count
MaxEntries == 2     \* context values held by the live scopes, over all keys
MaxNesting == 2     \* with_next_context calls in progress at once

Values == {0, 1}

----
\* Data.

None == <<>>
Some(x) == <<x>>

\* A ScopeId is a slot-map key: the slot index and the slot's generation.
ScopeId(idx, version) == <<idx, version>>

Scope(r, id) == [runtime |-> r, id |-> id]

ScopeState_detached(parent) ==
    [parent |-> None, contexts |-> <<>>, children |-> <<>>, signals |-> <<>>,
     effects |-> <<>>, resources |-> <<>>, cleanups |-> <<>>]

ScopeState_new(parent) ==
    [parent |-> parent, contexts |-> <<>>, children |-> <<>>, signals |-> <<>>,
     effects |-> <<>>, resources |-> <<>>, cleanups |-> <<>>]

Runtimes == DOMAIN slots

\* SlotMap::get: the slot exists, holds a value, and its generation is the key's.
Live(r, id) ==
    /\ r \in Runtimes
    /\ id[1] \in DOMAIN slots[r]
    /\ slots[r][id[1]].version = id[2]
    /\ slots[r][id[1]].value # None

StateOf(r, id) == slots[r][id[1]].value[1]

LiveIds(r) ==
    {ScopeId(i, slots[r][i].version) : i \in {j \in DOMAIN slots[r] : slots[r][j].value # None}}

\* Every handle user code may hold: a Scope is Copy, so handles of disposed
\* scopes stay around.
Handles == UNION {{Scope(r, id) : id \in LiveIds(r) \cup disposedIds[r]} : r \in Runtimes}

\* The number of ScopeStates ever inserted into slot s: generations are odd
\* while occupied and even while vacant.
Inserted(s) == (s.version + 1) \div 2

RECURSIVE SumInserted(_)
SumInserted(ss) == IF ss = <<>> THEN 0 ELSE Inserted(Head(ss)) + SumInserted(Tail(ss))

RECURSIVE TotalScopes(_)
TotalScopes(rs) == IF rs = <<>> THEN 0 ELSE SumInserted(Head(rs)) + TotalScopes(Tail(rs))

\* The nodes held by the live scopes.
NodeCount(s) ==
    IF s.value = None THEN 0
    ELSE Len(s.value[1].signals) + Len(s.value[1].effects) + Len(s.value[1].resources)

RECURSIVE SumNodes(_)
SumNodes(ss) == IF ss = <<>> THEN 0 ELSE NodeCount(Head(ss)) + SumNodes(Tail(ss))

RECURSIVE TotalNodes(_)
TotalNodes(rs) == IF rs = <<>> THEN 0 ELSE SumNodes(Head(rs)) + TotalNodes(Tail(rs))

----
\* The arena (slotmap::SlotMap<ScopeId, ScopeState>).

OccupiedVersion(v) == IF v % 2 = 0 THEN v + 1 ELSE v

\* The generation of a slot after its value is removed.
RemovedVersionKept(v) == v
RemovedVersion(v) == v + 1

\* SlotMap::insert for runtime r: reuse the head of the free list, else grow.
InsertId(r) ==
    IF free[r] # <<>>
    THEN ScopeId(Head(free[r]), OccupiedVersion(slots[r][Head(free[r])].version))
    ELSE ScopeId(Len(slots[r]) + 1, 1)

ArenaInsert(ss, fr, st) ==
    IF fr # <<>>
    THEN [ss EXCEPT ![Head(fr)] =
             [version |-> OccupiedVersion(ss[Head(fr)].version), value |-> Some(st)]]
    ELSE Append(ss, [version |-> 1, value |-> Some(st)])

FreeAfterInsert(fr) == IF fr # <<>> THEN Tail(fr) ELSE fr

\* SlotMap::remove(id) on a live id.
ArenaRemove(ss, id) ==
    [ss EXCEPT ![id[1]] = [version |-> RemovedVersion(ss[id[1]].version), value |-> None]]

----
\* The call stack.

Frame(op, r, id) ==
    [op |-> op, runtime |-> r, id |-> id, pc |-> "start", kind |-> "",
     scope |-> None, todo |-> <<>>, prev |-> FALSE, ret |-> 0]

Top == stack[Len(stack)]
Pop(s) == SubSeq(s, 1, Len(s) - 1)

Running == panicked = "none"

\* User code is running: top-level code, or a user closure is the innermost call.
UserPoint == Running /\ (IF stack = <<>> THEN TRUE ELSE Top.op = "closure")

\* Scope::dispose holds the RefMut of runtime.scopes it took in the scrutinee
\* of its `if let` for the whole body of the `if let`.
ScopesBorrowedMut(r) ==
    \E i \in DOMAIN stack : stack[i].op = "dispose" /\ stack[i].runtime = r

DisposeInProgress == \E i \in DOMAIN stack : stack[i].op = "dispose"

\* The flag of runtime r after the stack unwinds: the guard of the outermost
\* untrack on r restores the value it saved.
UntrackFrames(r) == {i \in DOMAIN stack : stack[i].op = "untrack" /\ stack[i].runtime = r}
Min(S) == CHOOSE x \in S : \A y \in S : x <= y

UnwoundFlag(r) ==
    IF UntrackFrames(r) = {} THEN untracked[r] ELSE stack[Min(UntrackFrames(r))].prev

AllUntrackFrames == {i \in DOMAIN stack : stack[i].op = "untrack"}

\* A panic unwinds the whole stack and ends the program.
Panic(cause) ==
    /\ panicked' = cause
    /\ stack' = <<>>
    /\ untracked' = [r \in Runtimes |-> UnwoundFlag(r)]
    /\ lastExit' = IF AllUntrackFrames = {} THEN lastExit
                   ELSE Some([runtime |-> stack[Min(AllUntrackFrames)].runtime,
                              inner |-> FALSE, how |-> "unwind"])

----
Init ==
    /\ slots = <<>>
    /\ free = <<>>
    /\ untracked = <<>>
    /\ shared_context = <<>>
    /\ stack = <<>>
    /\ disposers = {}
    /\ panicked = "none"
    /\ ran = <<>>
    /\ cleared = <<>>
    /\ pushedEffects = {}
    /\ fragments = <<>>
    /\ disposedIds = <<>>
    /\ keys = <<>>
    /\ fvalue = <<>>
    /\ result = <<>>
    /\ lastExit = None
    /\ registered = {}
    /\ edges = {}

----
\* Scope::dispose, entered from the frames in `base`: borrow_mut() panics when
\* the arena is already borrowed; remove(id) of an absent id is None and the
\* call returns; else the ScopeState is moved out and the body starts.
DisposeEnter(base, r, id) ==
    IF ScopesBorrowedMut(r)
    THEN /\ Panic("dispose")
         /\ UNCHANGED <<slots, free, disposedIds>>
    ELSE IF Live(r, id)
    THEN /\ slots' = [slots EXCEPT ![r] = ArenaRemove(slots[r], id)]
         /\ free' = [free EXCEPT ![r] = <<id[1]>> \o free[r]]
         /\ disposedIds' = [disposedIds EXCEPT ![r] = @ \cup {id}]
         /\ stack' = Append(base,
                [Frame("dispose", r, id) EXCEPT
                    !.pc = "children",
                    !.scope = Some([StateOf(r, id) EXCEPT !.children = <<>>]),
                    !.todo = StateOf(r, id).children])
         /\ UNCHANGED <<panicked, untracked, lastExit>>
    ELSE /\ stack' = base
         /\ UNCHANGED <<slots, free, disposedIds, panicked, untracked, lastExit>>

\* pub fn dispose(self), called by user code through any copy of the handle.
ScopeDispose(h) ==
    /\ UserPoint
    /\ DisposeEnter(stack, h.runtime, h.id)
    /\ UNCHANGED <<shared_context, disposers, ran, cleared, pushedEffects, fragments, keys, fvalue, result, registered, edges>>

\* ScopeDisposer::dispose(self): consumes the disposer and calls its closure,
\* which disposes the scope it was made for.
DisposerDispose(d) ==
    /\ UserPoint
    /\ d \in disposers
    /\ disposers' = disposers \ {d}
    /\ DisposeEnter(stack, d.runtime, d.id)
    /\ UNCHANGED <<shared_context, ran, cleared, pushedEffects, fragments, keys, fvalue, result, registered, edges>>

\* for id in scope.children.take() { Scope { runtime, id }.dispose() }
DisposeChild ==
    /\ Running /\ stack # <<>>
    /\ Top.op = "dispose" /\ Top.pc = "children" /\ Top.todo # <<>>
    /\ DisposeEnter([stack EXCEPT ![Len(stack)].todo = Tail(@)], Top.runtime, Head(Top.todo))
    /\ UNCHANGED <<shared_context, disposers, ran, cleared, pushedEffects, fragments, keys, fvalue, result, registered, edges>>

\* The fragments after the notifying effects owned by scope h went from
\* state `from` to state `to`.
EffectsOfScope(h, from, to) ==
    [i \in DOMAIN fragments |->
        IF fragments[i].scope = h /\ fragments[i].effect = from
        THEN [fragments[i] EXCEPT !.effect = to]
        ELSE fragments[i]]

\* The calls that `for effect in &scope.effects { effect.clear_dependencies() }`
\* makes for the ScopeState st of scope h, in the order of the iteration;
\* each is recorded with the number of cleanups invoked before it.
ClearCalls(h, st) ==
    [i \in 1..Len(st.effects) |-> [scope |-> h, effect |-> st.effects[i], at |-> Len(ran)]]

\* for effect in &scope.effects { effect.clear_dependencies() }
DisposeEffects ==
    /\ Running /\ stack # <<>>
    /\ Top.op = "dispose" /\ Top.pc = "children" /\ Top.todo = <<>>
    /\ cleared' = cleared \o ClearCalls(Scope(Top.runtime, Top.id), Top.scope[1])
    /\ fragments' = EffectsOfScope(Scope(Top.runtime, Top.id), "subscribed", "cleared")
    /\ stack' = [stack EXCEPT ![Len(stack)].pc = "cleanups",
                              ![Len(stack)].todo = Top.scope[1].cleanups]
    /\ UNCHANGED <<slots, free, untracked, shared_context, disposers, panicked,
                   ran, pushedEffects, disposedIds, keys, fvalue, result, lastExit, registered, edges>>

\* The cleanup the loop `for cleanup in scope.cleanups.take()` invokes next.
NextCleanupLast(cs) == Len(cs)
NextCleanup(cs) == 1

WithoutAt(s, i) == SubSeq(s, 1, i - 1) \o SubSeq(s, i + 1, Len(s))

\* (cleanup)(): the user's closure runs inside dispose.
DisposeCleanup ==
    /\ Running /\ stack # <<>>
    /\ Top.op = "dispose" /\ Top.pc = "cleanups" /\ Top.todo # <<>>
    /\ ran' = Append(ran, Top.todo[NextCleanup(Top.todo)])
    /\ stack' = Append([stack EXCEPT ![Len(stack)].todo = WithoutAt(@, NextCleanup(@))],
                       [Frame("closure", Top.runtime, Top.id) EXCEPT !.kind = "cleanup"])
    /\ UNCHANGED <<slots, free, untracked, shared_context, disposers, panicked,
                   cleared, pushedEffects, fragments,
                   disposedIds, keys, fvalue, result, lastExit, registered, edges>>

\* drop(scope), and the end of the `if let`: the node containers are dropped,
\* and with an effect the closure it owns; the RefMut is released.
DisposeDrop ==
    /\ Running /\ stack # <<>>
    /\ Top.op = "dispose" /\ Top.pc = "cleanups" /\ Top.todo = <<>>
    /\ fragments' = EffectsOfScope(Scope(Top.runtime, Top.id), "cleared", "dropped")
    /\ stack' = Pop(stack)
    /\ UNCHANGED <<slots, free, untracked, shared_context, disposers, panicked,
                   ran, cleared, pushedEffects, disposedIds, keys, fvalue, result, lastExit, registered, edges>>

----
\* Runtime::new(): a fresh runtime with an empty arena whose first insert is
\* the root ScopeState st.
NewRuntime(st) ==
    /\ slots' = Append(slots, <<[version |-> 1, value |-> Some(st)]>>)
    /\ free' = Append(free, <<>>)
    /\ untracked' = Append(untracked, FALSE)
    /\ shared_context' = Append(shared_context, None)
    /\ disposedIds' = Append(disposedIds, {})
    /\ keys' = Append(keys, <<>>)
    /\ fvalue' = Append(fvalue, None)
    /\ result' = Append(result, None)

RootModes == {"create_scope", "run_scope", "run_scope_undisposed"}

\* The method of Runtime that each public function calls.
RuntimeCallDisposing(fn) ==
    IF fn \in {"run_scope", "run_scope_undisposed"} THEN "run_scope" ELSE "create_scope"
RuntimeCall(fn) == IF fn = "child_scope" THEN "create_scope" ELSE fn

\* create_scope(f), run_scope(f), run_scope_undisposed(f): leak a new Runtime,
\* allocate the root scope in it and call f with its handle.
CreateScope(mode, max) ==
    /\ UserPoint
    /\ Len(slots) < max
    /\ TotalScopes(slots) < MaxScopes
    /\ NewRuntime(ScopeState_new(None))
    /\ stack' = stack \o
         <<[Frame("create", Len(slots) + 1, ScopeId(1, 1)) EXCEPT !.kind = mode],
           [Frame("closure", Len(slots) + 1, ScopeId(1, 1)) EXCEPT !.kind = "f"]>>
    /\ UNCHANGED <<disposers, panicked, ran, cleared, pushedEffects, fragments, lastExit, registered, edges>>

\* The arena of runtime r after Runtime::create_scope(f, Some(parent)) has
\* inserted the child and registered its id in the parent's children.
ArenaWithChild(r, parent) ==
    LET inserted == ArenaInsert(slots[r], free[r], ScopeState_new(Some(parent)))
    IN  IF Live(r, parent.id)
        THEN [inserted EXCEPT ![parent.id[1]].value[1].children = Append(@, InsertId(r))]
        ELSE inserted

\* Scope::child_scope(f): self.runtime.create_scope(f, Some(self)), while
\* fewer than max ScopeStates have been inserted.
ChildScopeUpTo(h, max) ==
    /\ UserPoint
    /\ TotalScopes(slots) < max
    /\ IF ScopesBorrowedMut(h.runtime)
       THEN /\ Panic("create_scope")
            /\ UNCHANGED <<slots, free, edges>>
       ELSE /\ slots' = [slots EXCEPT ![h.runtime] = ArenaWithChild(h.runtime, h)]
            /\ edges' = IF Live(h.runtime, h.id)
                        THEN edges \cup {<<h, Scope(h.runtime, InsertId(h.runtime))>>}
                        ELSE edges
            /\ free' = [free EXCEPT ![h.runtime] = FreeAfterInsert(@)]
            /\ stack' = stack \o
                 <<[Frame("create", h.runtime, InsertId(h.runtime)) EXCEPT !.kind = "child_scope"],
                   [Frame("closure", h.runtime, InsertId(h.runtime)) EXCEPT !.kind = "f"]>>
            /\ UNCHANGED <<panicked, untracked, lastExit>>
    /\ UNCHANGED <<shared_context, disposers, ran, cleared, pushedEffects, fragments, disposedIds, keys, fvalue, result, registered>>

ChildScope(h) == ChildScopeUpTo(h, MaxScopes)

\* The frame that called the closure on top of the stack.
Caller == IF Len(stack) > 1 THEN stack[Len(stack) - 1] ELSE Frame("", 0, None)

ReturnsValue == Top.kind = "f" /\ Caller.kind \in {"run_scope", "run_scope_undisposed"}

\* A user closure returns v to the library code that called it.
Return(v) ==
    /\ UserPoint /\ stack # <<>>
    /\ IF ReturnsValue THEN v \in Values ELSE v = 0
    /\ stack' = IF Caller.op \in {"create", "untrack"}
                THEN [Pop(stack) EXCEPT ![Len(stack) - 1].pc = "ran_f",
                                        ![Len(stack) - 1].ret = v]
                ELSE Pop(stack)
    /\ fvalue' = IF ReturnsValue THEN [fvalue EXCEPT ![Top.runtime] = Some(v)] ELSE fvalue
    /\ UNCHANGED <<slots, free, untracked, shared_context, disposers, panicked,
                   ran, cleared, pushedEffects, fragments, disposedIds, keys, result, lastExit, registered, edges>>

\* A user closure panics.
UserPanic ==
    /\ UserPoint /\ stack # <<>>
    /\ Panic("user")
    /\ UNCHANGED <<slots, free, shared_context, disposers, ran, cleared, pushedEffects, fragments, disposedIds,
                   keys, fvalue, result, registered, edges>>

\* Runtime::create_scope / run_scope_undisposed after f returned: wrap
\* `move || scope.dispose()` in a ScopeDisposer and return it.
CreateFinish ==
    /\ Running /\ stack # <<>>
    /\ Top.op = "create" /\ Top.pc = "ran_f" /\ RuntimeCall(Top.kind) # "run_scope"
    /\ disposers' = disposers \cup {Scope(Top.runtime, Top.id)}
    /\ result' = IF RuntimeCall(Top.kind) = "run_scope_undisposed"
                 THEN [result EXCEPT ![Top.runtime] = Some(Top.ret)]
                 ELSE result
    /\ stack' = Pop(stack)
    /\ UNCHANGED <<slots, free, untracked, shared_context, panicked, ran, cleared, pushedEffects, fragments,
                   disposedIds, keys, fvalue, lastExit, registered, edges>>

\* Runtime::run_scope after f returned: disposer.dispose().
RunScopeDispose ==
    /\ Running /\ stack # <<>>
    /\ Top.op = "create" /\ Top.pc = "ran_f" /\ RuntimeCall(Top.kind) = "run_scope"
    /\ DisposeEnter([stack EXCEPT ![Len(stack)].pc = "disposed"], Top.runtime, Top.id)
    /\ UNCHANGED <<shared_context, disposers, ran, cleared, pushedEffects, fragments, keys, fvalue, result, registered, edges>>

\* Runtime::run_scope: return the value of f.
RunScopeReturn ==
    /\ Running /\ stack # <<>>
    /\ Top.op = "create" /\ Top.pc = "disposed"
    /\ result' = [result EXCEPT ![Top.runtime] = Some(Top.ret)]
    /\ stack' = Pop(stack)
    /\ UNCHANGED <<slots, free, untracked, shared_context, disposers, panicked,
                   ran, cleared, pushedEffects, fragments, disposedIds, keys, fvalue, lastExit, registered, edges>>

----
\* Runtime::untrack(f): suppress tracking while f runs; the previous value of
\* the flag is saved and restored on every exit path.
Runtime_untrack_from(st, r) ==
    /\ untracked' = [untracked EXCEPT ![r] = TRUE]
    /\ stack' = st \o
         <<[Frame("untrack", r, None) EXCEPT !.prev = untracked[r]],
           [Frame("closure", r, None) EXCEPT !.kind = "untrack_f"]>>

Runtime_untrack(r) == Runtime_untrack_from(stack, r)

Scope_untrack_direct(h) ==
    /\ untracked' = untracked
    /\ stack' = Append(stack, [Frame("closure", h.runtime, None) EXCEPT !.kind = "untrack_f"])

\* Scope::untrack(f): self.runtime.untrack(f).
Scope_untrack(h) == Runtime_untrack(h.runtime)

Untrack(h) ==
    /\ UserPoint
    /\ Cardinality(AllUntrackFrames) < MaxUntrack
    /\ Scope_untrack(h)
    /\ UNCHANGED <<slots, free, shared_context, disposers, panicked, ran, cleared, pushedEffects, fragments,
                   disposedIds, keys, fvalue, result, lastExit, registered, edges>>

\* Runtime::untrack after f returned: restore the saved flag.
UntrackFinish ==
    /\ Running /\ stack # <<>>
    /\ Top.op = "untrack" /\ Top.pc = "ran_f"
    /\ untracked' = [untracked EXCEPT ![Top.runtime] = Top.prev]
    /\ lastExit' = Some([runtime |-> Top.runtime,
                         inner |-> UntrackFrames(Top.runtime) # {Len(stack)},
                         how |-> "return"])
    /\ stack' = Pop(stack)
    /\ UNCHANGED <<slots, free, shared_context, disposers, panicked, ran, cleared, pushedEffects, fragments,
                   disposedIds, keys, fvalue, result, registered, edges>>

----
\* The id a push returns, given the container after the push: len() - 1.
NewIdIsLen(pushed) == Len(pushed)
NewId(pushed) == Len(pushed) - 1

\* push(state): the node is stored at the end; the model stores with it the
\* id that the push returned for it.
AppendNode(container) ==
    LET pushed == Append(container, 0)
    IN  [pushed EXCEPT ![Len(pushed)] = NewId(pushed)]

SignalsPush(st) == [st EXCEPT !.signals = AppendNode(@)]
EffectsPush(st) == [st EXCEPT !.effects = AppendNode(@)]
ResourcesPush(st) == [st EXCEPT !.resources = AppendNode(@)]

\* on_cleanup(cx, f): push the closure on the scope's cleanups.  A closure is
\* named by its scope and its rank among the closures registered on it.
CleanupsPush(h, st) ==
    [st EXCEPT !.cleanups = Append(@, [scope |-> h, n |-> Len(@) + 1])]

\* The closures that the operations below hand to Runtime::scope.
ScopeClosure(f, h, st) ==
    CASE f = "push_signal" -> SignalsPush(st)
      [] f = "push_effect" -> EffectsPush(st)
      [] f = "push_resource" -> ResourcesPush(st)
      [] f = "on_cleanup" -> CleanupsPush(h, st)

\* Runtime::scope(id, f): look the scope up in the arena under a shared borrow
\* and apply f to it; nothing happens when the id is absent.
WithScope(h, f) ==
    IF ScopesBorrowedMut(h.runtime)
    THEN /\ Panic("scope")
         /\ UNCHANGED slots
    ELSE /\ slots' = IF Live(h.runtime, h.id)
                     THEN [slots EXCEPT ![h.runtime][h.id[1]].value[1] = ScopeClosure(f, h, @)]
                     ELSE slots
         /\ UNCHANGED <<stack, panicked, untracked, lastExit>>

\* scope.signals.push(..); SignalId(scope.signals.len() - 1)
PushSignal(h) ==
    /\ UserPoint
    /\ TotalNodes(slots) < MaxNodes
    /\ WithScope(h, "push_signal")
    /\ UNCHANGED <<free, shared_context, disposers, ran, cleared, pushedEffects, fragments, disposedIds, keys, fvalue, result, registered, edges>>

\* scope.effects.push(..); EffectId(scope.effects.len() - 1)
PushEffect(h) ==
    /\ UserPoint
    /\ TotalNodes(slots) < MaxNodes
    /\ WithScope(h, "push_effect")
    /\ pushedEffects' =
         IF Live(h.runtime, h.id) /\ ~ScopesBorrowedMut(h.runtime)
         THEN pushedEffects \cup {[scope |-> h, effect |-> Len(StateOf(h.runtime, h.id).effects)]}
         ELSE pushedEffects
    /\ UNCHANGED <<free, shared_context, disposers, ran, cleared, fragments, disposedIds, keys, fvalue, result, registered, edges>>

\* scope.resources.push(..); ResourceId(scope.resources.len() - 1)
PushResource(h) ==
    /\ UserPoint
    /\ TotalNodes(slots) < MaxNodes
    /\ WithScope(h, "push_resource")
    /\ UNCHANGED <<free, shared_context, disposers, ran, cleared, pushedEffects, fragments, disposedIds, keys, fvalue, result, registered, edges>>

OnCleanup(h) ==
    /\ UserPoint
    /\ Cardinality(registered) < MaxCleanups
    /\ WithScope(h, "on_cleanup")
    /\ registered' = IF Live(h.runtime, h.id) /\ ~ScopesBorrowedMut(h.runtime)
                     THEN registered \cup {[scope |-> h, n |-> Len(StateOf(h.runtime, h.id).cleanups) + 1]}
                     ELSE registered
    /\ UNCHANGED <<free, shared_context, disposers, ran, cleared, pushedEffects, fragments, disposedIds, keys, fvalue, result, edges>>

----
\* Contexts: ScopeState.contexts maps a type key to at most one value.
CtxKeys == {"K1", "K2"}

\* HashMap::insert(k, v): the value under k is replaced.
MapInsert(mp, k, v) == [x \in DOMAIN mp \cup {k} |-> IF x = k THEN v ELSE mp[x]]

ContextsInsert(st, k, v) == [st EXCEPT !.contexts = MapInsert(@, k, v)]

EntryCount(s) == IF s.value = None THEN 0 ELSE Cardinality(DOMAIN s.value[1].contexts)

RECURSIVE SumEntries(_)
SumEntries(ss) == IF ss = <<>> THEN 0 ELSE EntryCount(Head(ss)) + SumEntries(Tail(ss))

RECURSIVE TotalEntries(_)
TotalEntries(rs) == IF rs = <<>> THEN 0 ELSE SumEntries(Head(rs)) + TotalEntries(Tail(rs))

\* provide_context(cx, value): insert the value under its type key in the
\* contexts of cx; nothing happens when cx is not in the arena.
ProvideContext(h, k, v) ==
    /\ UserPoint
    /\ TotalEntries(slots) < MaxEntries \/ (Live(h.runtime, h.id) /\ k \in DOMAIN StateOf(h.runtime, h.id).contexts)
    /\ IF ScopesBorrowedMut(h.runtime)
       THEN /\ Panic("scope")
            /\ UNCHANGED slots
       ELSE /\ slots' = IF Live(h.runtime, h.id)
                        THEN [slots EXCEPT ![h.runtime][h.id[1]].value[1] = ContextsInsert(@, k, v)]
                        ELSE slots
            /\ UNCHANGED <<stack, panicked, untracked, lastExit>>
    /\ UNCHANGED <<free, shared_context, disposers, ran, cleared, pushedEffects, fragments, disposedIds, keys, fvalue, result, registered, edges>>

\* use_context(cx): the value under the key in cx's own contexts, else in
\* its parent's, and so on up; None when no scope on the way has one or a
\* scope on the way is not in the arena.
RECURSIVE UseContext(_, _)
UseContext(h, k) ==
    IF ~Live(h.runtime, h.id) THEN None
    ELSE IF k \in DOMAIN StateOf(h.runtime, h.id).contexts
         THEN Some(StateOf(h.runtime, h.id).contexts[k])
    ELSE IF StateOf(h.runtime, h.id).parent = None THEN None
    ELSE UseContext(StateOf(h.runtime, h.id).parent[1], k)

----
\* The correlation session (hydration::SharedContext).

RECURSIVE Digits(_)
Digits(n) == IF n < 10 THEN <<n>> ELSE Append(Digits(n \div 10), n % 10)

\* A key: the namespace of the current context and the ordinal, formatted.
Token(c) == [id |-> c.id, ordinal |-> Digits(c.count)]

SharedContext_default == [context |-> None, pending_fragments |-> <<>>]

FirstContext == [id |-> <<0>>, count |-> 0]

\* SharedContext::next_hydration_key(&mut self): the key it returns ...
KeyOf(sc) == IF sc.context = None THEN Token(FirstContext) ELSE Token(sc.context[1])

\* ... and the session it leaves.
AfterKey(sc) ==
    IF sc.context = None
    THEN [sc EXCEPT !.context = Some([FirstContext EXCEPT !.count = 1])]
    ELSE [sc EXCEPT !.context[1].count = @ + 1]

\* self.runtime.shared_context: the cell a handle's calls use.
ContextCellGlobal(h) == 1
ContextCell(h) == h.runtime

\* Scope::next_hydration_key: use the session, creating it when there is none.
SessionOf(cell) ==
    IF shared_context[cell] = None THEN SharedContext_default ELSE shared_context[cell][1]

NextHydrationKey(h) ==
    /\ UserPoint
    /\ Len(keys[h.runtime]) < MaxKeys
    /\ shared_context' = [shared_context EXCEPT ![ContextCell(h)] = Some(AfterKey(SessionOf(ContextCell(h))))]
    /\ keys' = [keys EXCEPT ![h.runtime] = Append(@, [op |-> "key", key |-> KeyOf(SessionOf(ContextCell(h)))])]
    /\ UNCHANGED <<slots, free, untracked, stack, disposers, panicked, ran, cleared, pushedEffects, fragments,
                   disposedIds, fvalue, result, lastExit, registered, edges>>

\* The first request on a runtime: the one that creates the session.
StartSession(h) == shared_context[h.runtime] = None /\ NextHydrationKey(h)

\* HydrationContext::next_hydration_context: the child namespace derived
\* from a context.
NextHydrationContext(c) == [id |-> Append(c.id, c.count), count |-> 0]

\* .as_ref().and_then(|sc| sc.context.as_ref()).is_some()
ContextActive(cell) ==
    shared_context[cell] # None /\ shared_context[cell][1].context # None

\* if let Some(ref mut sc) = ... { sc.context = c; }
ContextKept(sc, c) == sc
ContextRestored(sc, c) == [sc EXCEPT !.context = c]

WithNextContextFrames == {i \in DOMAIN stack : stack[i].op = "with_next_context"}

\* Scope::with_next_context(f) up to the call of f: with a context active,
\* replace it by its derived child and keep the replaced one in c (field
\* scope of the frame); in both branches run f through untrack. Field todo
\* of the frame records the context cell as it was at the call.
WithNextContext(h) ==
    /\ UserPoint
    /\ Cardinality(WithNextContextFrames) < MaxNesting
    /\ IF ContextActive(ContextCell(h))
       THEN /\ shared_context' = [shared_context EXCEPT ![ContextCell(h)][1].context[1] =
                                      NextHydrationContext(@)]
            /\ Runtime_untrack_from(
                   Append(stack, [Frame("with_next_context", h.runtime, None) EXCEPT
                                     !.kind = "active",
                                     !.scope = Some(shared_context[ContextCell(h)][1].context[1]),
                                     !.todo = <<shared_context[ContextCell(h)]>>]),
                   h.runtime)
       ELSE /\ shared_context' = shared_context
            /\ Runtime_untrack_from(
                   Append(stack, [Frame("with_next_context", h.runtime, None) EXCEPT
                                     !.kind = "inactive",
                                     !.todo = <<shared_context[ContextCell(h)]>>]),
                   h.runtime)
    /\ UNCHANGED <<slots, free, disposers, panicked, ran, cleared, pushedEffects, fragments,
                   disposedIds, keys, fvalue, result, lastExit, registered, edges>>

\* Scope::with_next_context after untrack returned: put c back and return.
WithNextContextFinish ==
    /\ Running /\ stack # <<>>
    /\ Top.op = "with_next_context"
    /\ shared_context' =
           IF Top.kind = "active" /\ shared_context[Top.runtime] # None
           THEN [shared_context EXCEPT ![Top.runtime][1] = ContextRestored(@, Top.scope)]
           ELSE shared_context
    /\ stack' = Pop(stack)
    /\ UNCHANGED <<slots, free, untracked, disposers, panicked, ran, cleared, pushedEffects,
                   fragments, disposedIds, keys, fvalue, result, lastExit, registered, edges>>

----
\* Pending fragments (feature "ssr").
FragmentKeys == {"a", "b"}

\* futures::channel::mpsc::channel::<()>(ChannelBuffer): the messages the
\* channel holds before try_send fails, with its one sender.
ChannelBuffer == 1
ChannelCapacity == ChannelBuffer + 1

\* tx.try_send(()) on a channel holding buf messages.
TrySend(buf) == IF buf < ChannelCapacity THEN buf + 1 ELSE buf

\* The notifying effect runs with the pending-resources count at n:
\* if pending == 0 { tx.try_send(()) }.
EffectRunNoSend(fr, n) == IF n = 0 THEN [fr EXCEPT !.zero = TRUE] ELSE fr
EffectRun(fr, n) ==
    IF n = 0
    THEN [fr EXCEPT !.zero = TRUE,
                    !.buf = IF fr.rx = "dropped" THEN @ ELSE TrySend(@)]
    ELSE fr

\* The fragment that register_suspense makes for scope h under key, with the
\* count at n; create_isomorphic_effect runs the effect once at once.
NewFragment(h, key, n) ==
    EffectRun([scope |-> h, key |-> key, pending |-> n, effect |-> "subscribed",
               buf |-> 0, rx |-> "registry", zero |-> FALSE, done |-> FALSE,
               calls |-> 0, returns |-> 0], n)

\* The registry entry of a session: <<>> or <<index of the fragment>>.
InRegistry(sc, key) == IF key \in DOMAIN sc.pending_fragments THEN Some(sc.pending_fragments[key]) ELSE None

\* HashMap::insert drops the future that was under the key.
FragmentsInserted(sc, h, key, n) ==
    Append([i \in DOMAIN fragments |->
                IF InRegistry(sc, key) = Some(i) /\ fragments[i].scope.runtime = h.runtime
                THEN [fragments[i] EXCEPT !.rx = "dropped"]
                ELSE fragments[i]],
           NewFragment(h, key, n))

SessionIsSomeAlways(h) == TRUE
SessionIsSome(h) == shared_context[h.runtime] # None

\* Scope::register_suspense(context, key, resolver) on a live scope.
RegisterSuspense(h, key, n) ==
    /\ UserPoint
    /\ Live(h.runtime, h.id)
    /\ IF SessionIsSome(h)
       THEN /\ fragments' = FragmentsInserted(SessionOf(h.runtime), h, key, n)
            /\ shared_context' = [shared_context EXCEPT ![h.runtime] =
                    Some([SessionOf(h.runtime) EXCEPT
                        !.pending_fragments = MapInsert(@, key, Len(fragments) + 1)])]
            /\ slots' = [slots EXCEPT ![h.runtime][h.id[1]].value[1] = EffectsPush(@)]
            /\ pushedEffects' = pushedEffects \cup
                    {[scope |-> h, effect |-> Len(StateOf(h.runtime, h.id).effects)]}
       ELSE UNCHANGED <<fragments, shared_context, slots, pushedEffects>>
    /\ UNCHANGED <<free, untracked, stack, disposers, panicked, ran, cleared,
                   disposedIds, keys, fvalue, result, lastExit, registered, edges>>

\* context.pending_resources changes to n: a subscribed effect runs again.
SetPending(i, n) ==
    /\ UserPoint
    /\ fragments[i].pending # n
    /\ fragments' = [fragments EXCEPT ![i] =
            IF @.effect = "subscribed"
            THEN EffectRun([@ EXCEPT !.pending = n], n)
            ELSE [@ EXCEPT !.pending = n]]
    /\ UNCHANGED <<slots, free, untracked, shared_context, stack, disposers, panicked, ran,
                   cleared, pushedEffects, disposedIds, keys, fvalue, result, lastExit,
                   registered, edges>>

\* The future `async move { rx.next().await; resolver() }` is polled by the
\* caller that got it from pending_fragments: rx.next() is ready with a
\* message, or with None once the sender is dropped and the channel is
\* empty; then the resolver is called.
PollFragment(i) ==
    /\ UserPoint
    /\ fragments[i].rx = "returned" /\ ~fragments[i].done
    /\ fragments[i].buf > 0 \/ fragments[i].effect = "dropped"
    /\ fragments' = [fragments EXCEPT ![i] =
            [@ EXCEPT !.buf = IF @ > 0 THEN @ - 1 ELSE @,
                      !.done = TRUE,
                      !.calls = @ + 1]]
    /\ UNCHANGED <<slots, free, untracked, shared_context, stack, disposers, panicked, ran,
                   cleared, pushedEffects, disposedIds, keys, fvalue, result, lastExit,
                   registered, edges>>

\* std::mem::replace(&mut shared_context.pending_fragments, HashMap::new()):
\* the session it leaves.
RegistryKept(sc) == sc
RegistryReplaced(sc) == [sc EXCEPT !.pending_fragments = <<>>]

\* Scope::pending_fragments(): take the registry of the session, leaving an
\* empty one; an empty map when there is no session.
PendingFragments(h) ==
    /\ UserPoint
    /\ IF SessionIsSome(h)
       THEN /\ shared_context' = [shared_context EXCEPT ![h.runtime] =
                    Some(RegistryReplaced(SessionOf(h.runtime)))]
            /\ fragments' = [i \in DOMAIN fragments |->
                    IF \E k \in FragmentKeys : InRegistry(SessionOf(h.runtime), k) = Some(i)
                    THEN [fragments[i] EXCEPT !.rx = "returned", !.returns = @ + 1]
                    ELSE fragments[i]]
       ELSE UNCHANGED <<shared_context, fragments>>
    /\ UNCHANGED <<slots, free, untracked, stack, disposers, panicked, ran, cleared,
                   pushedEffects, disposedIds, keys, fvalue, result, lastExit, registered, edges>>

----
\* The scope tree: creation, cleanups, disposal.
Next ==
    \/ \E mode \in RootModes : CreateScope(mode, MaxTrees)
    \/ \E h \in Handles : ChildScope(h)
    \/ \E v \in Values : Return(v)
    \/ UserPanic
    \/ CreateFinish
    \/ RunScopeDispose
    \/ RunScopeReturn
    \/ \E h \in Handles : ScopeDispose(h)
    \/ \E d \in disposers : DisposerDispose(d)
    \/ DisposeChild
    \/ DisposeEffects
    \/ DisposeCleanup
    \/ DisposeDrop
    \/ \E h \in Handles : OnCleanup(h)

Spec == Init /\ [][Next]_vars

\* Node containers: pushes through handles of live and of disposed scopes.
NextNodes ==
    \/ CreateScope("create_scope", MaxTrees)
    \/ \E h \in Handles : ChildScope(h)
    \/ Return(0)
    \/ CreateFinish
    \/ \E h \in Handles : ScopeDispose(h)
    \/ DisposeChild
    \/ DisposeEffects
    \/ DisposeDrop
    \/ \E h \in Handles : PushSignal(h)
    \/ \E h \in Handles : PushEffect(h)
    \/ \E h \in Handles : PushResource(h)

SpecNodes == Init /\ [][NextNodes]_vars

\* Untracked sections, nested, in closures and in cleanups, ended by a
\* return or by a panic.
NextUntrack ==
    \/ CreateScope("create_scope", MaxRuns)
    \/ Return(0)
    \/ UserPanic
    \/ CreateFinish
    \/ \E h \in Handles : Untrack(h)
    \/ UntrackFinish

SpecUntrack == Init /\ [][NextUntrack]_vars

\* Correlation keys requested in independent runs.
NextKeys ==
    \/ \E mode \in RootModes : CreateScope(mode, MaxRuns)
    \/ \E v \in Values : Return(v)
    \/ CreateFinish
    \/ RunScopeDispose
    \/ RunScopeReturn
    \/ DisposeEffects
    \/ DisposeDrop
    \/ \E h \in Handles : NextHydrationKey(h)

SpecKeys == Init /\ [][NextKeys]_vars

\* Nested correlation contexts: keys requested and child contexts entered
\* and left inside one tree.
NextNesting ==
    \/ CreateScope("create_scope", MaxTrees)
    \/ Return(0)
    \/ CreateFinish
    \/ \E h \in Handles : NextHydrationKey(h)
    \/ \E h \in Handles : WithNextContext(h)
    \/ UntrackFinish
    \/ WithNextContextFinish

SpecNesting == Init /\ [][NextNesting]_vars

\* Context values provided on the scopes of one tree, from inside the
\* closures that create them (a Scope is Copy: the closure of a child can
\* use the handle of any scope above it).
NextContexts ==
    \/ CreateScope("create_scope", MaxTrees)
    \/ \E h \in Handles : ChildScopeUpTo(h, MaxCtxScopes)
    \/ \E h \in Handles : \E k \in CtxKeys : \E v \in Values : ProvideContext(h, k, v)

SpecContexts == Init /\ [][NextContexts]_vars

\* The steps of a disposal: scopes with children, effects and cleanups.
NextOrder ==
    \/ CreateScope("create_scope", MaxTrees)
    \/ \E h \in Handles : ChildScope(h)
    \/ Return(0)
    \/ CreateFinish
    \/ \E h \in Handles : ScopeDispose(h)
    \/ DisposeChild
    \/ DisposeEffects
    \/ DisposeCleanup
    \/ DisposeDrop
    \/ \E h \in Handles : OnCleanup(h)
    \/ \E h \in Handles : PushEffect(h)

SpecOrder == Init /\ [][NextOrder]_vars

\* The registry of pending fragments: registration with and without a
\* session, replacement under a key, draining.
NextRegistry ==
    \/ CreateScope("create_scope", MaxTrees)
    \/ Return(0)
    \/ CreateFinish
    \/ \E h \in Handles : StartSession(h)
    \/ \E h \in Handles : \E k \in FragmentKeys : \E n \in 0..MaxPending :
            Len(fragments) < MaxFragments /\ RegisterSuspense(h, k, n)
    \/ \E h \in Handles : PendingFragments(h)

SpecRegistry == Init /\ [][NextRegistry]_vars

\* The resolution of a pending fragment: registration, changes of the
\* count, disposal of the registering scope, draining and polling.
NextSuspense ==
    \/ CreateScope("create_scope", MaxTrees)
    \/ \E h \in Handles : ScopeDispose(h)
    \/ DisposeEffects
    \/ DisposeDrop
    \/ \E h \in Handles : StartSession(h)
    \/ \E h \in Handles : \E k \in FragmentKeys : \E n \in 0..MaxPending :
            Len(fragments) < MaxWaiting /\ RegisterSuspense(h, k, n)
    \/ \E i \in DOMAIN fragments : \E n \in 0..MaxPending : SetPending(i, n)
    \/ \E i \in DOMAIN fragments : PollFragment(i)
    \/ \E h \in Handles : PendingFragments(h)

SpecSuspense == Init /\ [][NextSuspense]_vars

\* The same, where library code runs on and the caller keeps polling the
\* futures it holds.
Poll(i) == i \in DOMAIN fragments /\ PollFragment(i)

SpecSuspenseFair ==
    /\ SpecSuspense
    /\ WF_vars(DisposeEffects)
    /\ WF_vars(DisposeDrop)
    /\ \A i \in 1..MaxWaiting : WF_vars(Poll(i))

----
\* Vocabulary of the claims.

Disposed(h) == h.id \in disposedIds[h.runtime]

\* How many times a cleanup was invoked, and the place of an invocation.
Count(c, seq) == Cardinality({i \in DOMAIN seq : seq[i] = c})
Pos(c, seq) == CHOOSE i \in DOMAIN seq : seq[i] = c

ChildrenOf(S) == {e[2] : e \in {x \in edges : x[1] \in S}}

RECURSIVE Closure(_)
Closure(S) == IF ChildrenOf(S) \subseteq S THEN S ELSE Closure(S \cup ChildrenOf(S))

\* A scope and the scopes created, directly or not, under it.
Subtree(t) == Closure({t})

\* No disposal is under way and no user closure has failed.
Quiet == ~DisposeInProgress /\ panicked # "user"

----
\* C1: once the disposal of an ancestor is over, every scope created under
\* it is disposed, each cleanup of the descendant and of the ancestor has run
\* exactly once, and a child's cleanups have all run before its parent's.
C1_DisposalCascade ==
    Quiet =>
        \A e \in edges :
            Disposed(e[1]) =>
                /\ Disposed(e[2])
                /\ \A x \in registered :
                    x.scope \in {e[1], e[2]} => Count(x, ran) = 1
                /\ \A x, y \in registered :
                    (x.scope = e[2] /\ y.scope = e[1] /\ Count(x, ran) = 1 /\ Count(y, ran) = 1)
                        => Pos(x, ran) < Pos(y, ran)

\* C2: whatever dispose calls target a scope, once its disposal is over each
\* cleanup registered on it has been invoked exactly once, and no cleanup is
\* ever invoked twice.
C2_IdempotentDisposal ==
    /\ \A x \in registered : Count(x, ran) <= 1
    /\ Quiet => \A x \in registered : Disposed(x.scope) => Count(x, ran) = 1

\* C3: the cleanups of one scope are invoked in the order of their
\* registration: the n-th invocation for a scope is of the n-th registered.
C3_CleanupOrder ==
    \A i \in DOMAIN ran :
        ran[i].n = 1 + Cardinality({j \in 1..(i - 1) : ran[j].scope = ran[i].scope})

\* Two cleanups registered on the same scope have both been invoked.
C3_Witness ==
    \E i, j \in DOMAIN ran : i < j /\ ran[i].scope = ran[j].scope

----
Containers == {"signals", "effects", "resources"}

LiveHandles == {h \in Handles : Live(h.runtime, h.id)}

IsPrefix(a, b) == Len(a) <= Len(b) /\ SubSeq(b, 1, Len(a)) = a

\* The id returned for the k-th node of every container of every live scope
\* is k - 1.
IdsAreIndices ==
    \A h \in LiveHandles : \A f \in Containers :
        \A k \in DOMAIN StateOf(h.runtime, h.id)[f] : StateOf(h.runtime, h.id)[f][k] = k - 1

\* One step on a scope that stays live: every container keeps the nodes it
\* had at their places, and at most one container grows, by one node.
ContainersStep ==
    \A h \in LiveHandles :
        (Live(h.runtime, h.id))' =>
            /\ \A f \in Containers :
                IsPrefix(StateOf(h.runtime, h.id)[f], (StateOf(h.runtime, h.id))'[f])
            /\ Len((StateOf(h.runtime, h.id))'.signals) + Len((StateOf(h.runtime, h.id))'.effects)
                 + Len((StateOf(h.runtime, h.id))'.resources)
               <= Len(StateOf(h.runtime, h.id).signals) + Len(StateOf(h.runtime, h.id).effects)
                 + Len(StateOf(h.runtime, h.id).resources) + 1

\* C4: on a live scope the k-th push into a container returns k - 1, the
\* three containers count independently, and no step changes the index of a
\* node already created.
C4_StableIdentity == [](IdsAreIndices) /\ [][ContainersStep]_vars

\* A live scope holds two signals and one effect: the second signal got id 1
\* and the first effect id 0.
C4_Witness ==
    \E h \in LiveHandles :
        /\ Len(StateOf(h.runtime, h.id).signals) = 2
        /\ Len(StateOf(h.runtime, h.id).effects) = 1

----
\* No disposed ScopeId is the id of a scope in the arena, and every cleanup
\* invoked belongs to a scope that was disposed and is not in the arena.
StaleIdsStayStale ==
    /\ \A r \in Runtimes : disposedIds[r] \cap LiveIds(r) = {}
    /\ \A i \in DOMAIN ran :
        Disposed(ran[i].scope) /\ ~Live(ran[i].scope.runtime, ran[i].scope.id)

\* A scope leaves the arena only by a dispose of its own ScopeId.
RemovedByOwnId ==
    \A r \in Runtimes : \A id \in LiveIds(r) :
        ~(Live(r, id))' => id \in disposedIds'[r] \ disposedIds[r]

\* C5: a ScopeId that was disposed is never the id of a scope created later,
\* also when the slot is in use again; so a dispose through a stale handle
\* removes no scope created after the disposal and runs none of its cleanups.
C5_GenerationalHandles == [](StaleIdsStayStale) /\ [][RemovedByOwnId]_vars

\* A slot is in use again: a live scope sits in the slot of a disposed one
\* that had a cleanup, and the live scope has a cleanup registered too.
C5_Witness ==
    \E r \in Runtimes : \E id \in LiveIds(r) : \E old \in disposedIds[r] :
        /\ id[1] = old[1]
        /\ \E i \in DOMAIN ran : ran[i].scope = Scope(r, old)
        /\ StateOf(r, id).cleanups # <<>>

----
\* C6: whenever no dispose call is in progress, every scope in the arena
\* that has a parent has that parent in the arena too.
C6_NoChildOutlivesParent ==
    ~DisposeInProgress =>
        \A h \in LiveHandles :
            StateOf(h.runtime, h.id).parent # None =>
                Live(StateOf(h.runtime, h.id).parent[1].runtime,
                     StateOf(h.runtime, h.id).parent[1].id)

\* The calls of run_scope whose f has returned.
RunScopeFrames ==
    {i \in DOMAIN stack :
        stack[i].op = "create" /\ stack[i].kind = "run_scope" /\ stack[i].pc # "start"}

\* C7: when control leaves run_scope after f returned (no user closure
\* having failed), run_scope has returned the value of f, the scope it
\* created and the scopes created under it are out of the arena, and each of
\* their cleanups has been invoked exactly once.
C7_RunScope ==
    [][\A i \in RunScopeFrames :
        (Len(stack') < i /\ panicked' # "user") =>
            /\ fvalue[stack[i].runtime] # None
            /\ result'[stack[i].runtime] = fvalue[stack[i].runtime]
            /\ \A x \in Subtree(Scope(stack[i].runtime, stack[i].id)) :
                ~(Live(x.runtime, x.id))'
            /\ \A c \in registered :
                c.scope \in Subtree(Scope(stack[i].runtime, stack[i].id)) => Count(c, ran') = 1
      ]_vars

----
\* Returning a ScopeDisposer (from create_scope, child_scope or
\* run_scope_undisposed) removes nothing from the arena.
ReturningDisposer ==
    /\ Running /\ stack # <<>>
    /\ Top.op = "create" /\ Top.pc = "ran_f" /\ Top.kind # "run_scope"

\* The scopes outside the subtree of t keep their place in the arena and
\* their state, and none of their cleanups is invoked.
OthersUntouched(t) ==
    /\ \A x \in LiveHandles \ Subtree(t) :
        /\ (Live(x.runtime, x.id))'
        /\ (StateOf(x.runtime, x.id))' = StateOf(x.runtime, x.id)
    /\ \A i \in DOMAIN ran' : i > Len(ran) => ran'[i].scope \in Subtree(t)

----
\* C9: on every runtime, tracking is suppressed exactly while a call of
\* untrack is on the stack: it is suppressed while f runs, and when the
\* outermost untrack has ended, by a return or by a panic, the flag is again
\* as it was before; the end of an inner untrack leaves it suppressed.
C9_UntrackRestoration ==
    /\ \A r \in Runtimes : untracked[r] = (UntrackFrames(r) # {})
    /\ \A i \in DOMAIN stack : stack[i].kind = "untrack_f" => untracked[stack[i].runtime]

\* An inner untrack has returned inside an outer one whose f is still
\* running, and tracking is still suppressed.
C9_Witness ==
    /\ lastExit # None
    /\ lastExit[1].inner /\ lastExit[1].how = "return"
    /\ Cardinality(UntrackFrames(lastExit[1].runtime)) = 1
    /\ untracked[lastExit[1].runtime]
    /\ stack # <<>> /\ Top.kind = "untrack_f"

----
\* The requests of run r1 and of run r2 up to the k-th are the same.
SameRequests(r1, r2, k) == \A j \in 1..k : keys[r1][j].op = keys[r2][j].op

\* C10: two runs that make the same requests in the same order get the same
\* keys, request by request; and a run that got a key has a session.
C10_CorrelationPairing ==
    /\ \A r1, r2 \in Runtimes :
        \A k \in DOMAIN keys[r1] \cap DOMAIN keys[r2] :
            SameRequests(r1, r2, k) => keys[r1][k].key = keys[r2][k].key
    /\ \A r \in Runtimes : keys[r] # <<>> => shared_context[r] # None

\* Two runs have each requested two keys.
C10_Witness ==
    \E r1, r2 \in Runtimes : r1 # r2 /\ Len(keys[r1]) = 2 /\ Len(keys[r2]) = 2

----
\* The handles whose ScopeId has been disposed.
StaleHandles == {h \in Handles : Disposed(h) /\ ~Live(h.runtime, h.id)}

\* C11: push_signal, push_effect, push_resource and dispose called through a
\* handle whose ScopeId has been disposed never panic and leave every arena,
\* with the state of every live scope, as it was.
C11_InvalidHandleUse ==
    [][\A h \in StaleHandles :
        (ScopeDispose(h) \/ PushSignal(h) \/ PushEffect(h) \/ PushResource(h)) =>
            /\ panicked' = "none"
            /\ slots' = slots /\ free' = free /\ ran' = ran
      ]_vars

----
\* The scopes above x in the tree, and those of them, with x, that hold a
\* value of their own for key k.
RECURSIVE AncestorsOf(_)
AncestorsOf(x) ==
    LET up == {e[1] : e \in {d \in edges : d[2] = x}}
    IN  up \cup UNION {AncestorsOf(a) : a \in up}

Holders(x, k) ==
    {a \in AncestorsOf(x) \cup {x} :
        Live(a.runtime, a.id) /\ k \in DOMAIN StateOf(a.runtime, a.id).contexts}

Nearest(x, k) == CHOOSE a \in Holders(x, k) : \A b \in Holders(x, k) \ {a} : b \in AncestorsOf(a)

\* What a lookup of k from x yields: the value of the nearest holder.
Visible(x, k) ==
    IF Holders(x, k) = {} THEN None
    ELSE Some(StateOf(Nearest(x, k).runtime, Nearest(x, k).id).contexts[k])

\* A write of k on h is read back on h, and changes nothing that a scope
\* outside the subtree of h observes, nor what any scope observes for
\* another key.
WriteStep ==
    \A h \in LiveHandles : \A k \in CtxKeys : \A v \in Values :
        ProvideContext(h, k, v) =>
            /\ UseContext(h, k)' = Some(v)
            /\ \A x \in LiveHandles : \A j \in CtxKeys :
                (h \notin AncestorsOf(x) \cup {x} \/ j # k) =>
                    UseContext(x, j)' = UseContext(x, j)

\* C12: a scope reads back the value it set last for a key; a lookup from a
\* scope yields the value of the nearest scope, itself or an ancestor, that
\* has one; a write in a child changes nothing that its parent or its
\* siblings observe.
C12_ContextShadowing ==
    /\ [](\A x \in LiveHandles : \A k \in CtxKeys : UseContext(x, k) = Visible(x, k))
    /\ [][WriteStep]_vars

\* A parent holds a value for K1 and has two children: one has overwritten
\* K1 with another value, its sibling has none of its own and sees the
\* parent's.
C12_Witness ==
    \E e1, e2 \in edges :
        /\ e1[1] = e2[1] /\ e1[2] # e2[2]
        /\ UseContext(e1[1], "K1") # None
        /\ UseContext(e1[2], "K1") # None
        /\ UseContext(e1[2], "K1") # UseContext(e1[1], "K1")
        /\ "K1" \notin DOMAIN StateOf(e2[2].runtime, e2[2].id).contexts
        /\ UseContext(e2[2], "K1") = UseContext(e1[1], "K1")

----
\* C13: no call finds the arena of its runtime exclusively borrowed: the
\* nested dispose of a child, and a cleanup that looks a scope up, get the
\* arena, so the only panics are those of user closures.
C13_ReentrantArenaAccess ==
    /\ panicked \in {"none", "user"}
    /\ (stack # <<>> /\ Top.op = "closure" /\ Top.kind = "cleanup")
            => ~ScopesBorrowedMut(Top.runtime)

----
\* The scopes created, directly or not, under t.
Descendants(t) == Subtree(t) \ {t}

\* The clear_dependencies calls that a step adds.
NewClears == {cleared'[i] : i \in (DOMAIN cleared') \ (DOMAIN cleared)}

\* The steps of the disposals made so far are in order: a scope being
\* disposed is out of the arena; the effects of a scope are cleared in index
\* order, none twice, and before any of its cleanups; while a cleanup runs,
\* its scope and the scopes created under it are out of the arena.
DisposalSoFarInOrder ==
    /\ \A i \in DOMAIN stack :
        stack[i].op = "dispose" => ~Live(stack[i].runtime, stack[i].id)
    /\ \A i \in DOMAIN cleared :
        /\ cleared[i].effect = Cardinality({j \in 1..(i - 1) : cleared[j].scope = cleared[i].scope})
        /\ \A j \in DOMAIN ran : ran[j].scope = cleared[i].scope => cleared[i].at < j
    /\ \A i \in DOMAIN stack :
        (stack[i].op = "closure" /\ stack[i].kind = "cleanup") =>
            \A d \in Subtree(Scope(stack[i].runtime, stack[i].id)) : ~Live(d.runtime, d.id)

\* Every effect of a scope whose disposal is over, or has reached the
\* cleanups, has been cleared exactly once.
EffectsAllCleared ==
    \A e \in pushedEffects :
        (Disposed(e.scope) /\ (Quiet \/ \E j \in DOMAIN ran : ran[j].scope = e.scope)) =>
            Cardinality({i \in DOMAIN cleared :
                cleared[i].scope = e.scope /\ cleared[i].effect = e.effect}) = 1

\* C14: a scope is removed before any of its children is disposed; its
\* children are all disposed before clear_dependencies is invoked on any of
\* its effects; each effect is cleared exactly once, in index order, before
\* the first cleanup; so while the cleanups run the scope and its
\* descendants are out of the arena.
C14_DisposalStepOrder ==
    /\ [](DisposalSoFarInOrder /\ EffectsAllCleared)
    /\ [][\A c \in NewClears : \A d \in Descendants(c.scope) : ~(Live(d.runtime, d.id))']_vars

----
\* C15: the resolver of a fragment is invoked at most once, and only after
\* the notifying effect has observed the pending-resources count at zero; a
\* fragment whose count was never zero stays outstanding.
C15_ResolvedOnlyByZero ==
    \A i \in DOMAIN fragments :
        /\ fragments[i].calls <= 1
        /\ fragments[i].calls > 0 => fragments[i].zero
        /\ ~fragments[i].zero => ~fragments[i].done

----
\* Fragment i is held by a caller that polls it, and its effect has observed
\* the count at zero (at registration, or later while its scope was live).
PolledAndNotified(i) ==
    /\ i \in DOMAIN fragments
    /\ fragments[i].rx = "returned"
    /\ fragments[i].zero

Completed(i) == i \in DOMAIN fragments /\ fragments[i].done /\ fragments[i].calls = 1

\* A completion stays, and the resolver is not called again.
CompletionStays ==
    \A i \in DOMAIN fragments :
        fragments[i].done => (fragments'[i].done /\ fragments'[i].calls = fragments[i].calls)

\* C16: a fragment whose count was observed at zero and whose future keeps
\* being polled eventually completes with one call of the resolver; the
\* channel never holds more than its capacity, and later changes of the
\* count neither undo nor repeat the completion.
C16_FragmentLiveness ==
    /\ \A i \in 1..MaxWaiting : PolledAndNotified(i) ~> Completed(i)
    /\ [](\A i \in DOMAIN fragments : fragments[i].buf <= ChannelCapacity)
    /\ [][CompletionStays]_vars

\* A fragment has completed, and the count has since left zero and come
\* back often enough to fill the channel again.
C16_Witness ==
    \E i \in DOMAIN fragments :
        /\ Completed(i)
        /\ fragments[i].effect = "subscribed"
        /\ fragments[i].pending = 0
        /\ fragments[i].buf = ChannelCapacity

----
\* The context of runtime r's session, None without a session.
ActiveContext(r) == IF shared_context[r] = None THEN None ELSE shared_context[r][1].context

\* The context recorded at the call of the with_next_context frame i.
ContextAtCall(i) == IF stack[i].todo[1] = None THEN None ELSE stack[i].todo[1][1].context

\* While the f of a with_next_context call runs, tracking is suppressed, and
\* when a context was active at the call f's own code sees its derived child.
RunsInChildContext ==
    \A i \in WithNextContextFrames :
        /\ i < Len(stack) => untracked[stack[i].runtime]
        /\ (stack[i].kind = "active") = (ContextAtCall(i) # None)
        /\ (stack[i].kind = "active" /\ i + 2 = Len(stack)) =>
               /\ ActiveContext(stack[i].runtime) # None
               /\ ActiveContext(stack[i].runtime)[1].id =
                      NextHydrationContext(ContextAtCall(i)[1]).id

\* The return of a with_next_context call leaves the context that was
\* active at the call; with none active then, it changes nothing.
ReturnRestores ==
    WithNextContextFinish =>
        IF ContextAtCall(Len(stack)) # None
        THEN /\ shared_context'[Top.runtime] # None
             /\ shared_context'[Top.runtime][1].context = ContextAtCall(Len(stack))
        ELSE shared_context' = shared_context

\* Entering with no context active changes nothing of the session.
EntryWithoutContext ==
    \A h \in Handles :
        (WithNextContext(h) /\ ~ContextActive(ContextCell(h))) => shared_context' = shared_context

\* C17: with_next_context(f) runs f untracked and, when a context is
\* active, in its derived child context; when it returns, the context active
\* before the call is active again, at any nesting depth; with no context
\* active the call changes nothing of the shared context.
C17_NextContextRestored ==
    /\ []RunsInChildContext
    /\ [][ReturnRestores]_vars
    /\ [][EntryWithoutContext]_vars

\* An inner call has returned inside an outer one whose f goes on: the
\* child context of the outer call is active again.
C17_Witness ==
    /\ Cardinality(WithNextContextFrames) = 1
    /\ \E i \in WithNextContextFrames :
           /\ stack[i].kind = "active"
           /\ Len(stack) = i + 2
           /\ lastExit = Some([runtime |-> stack[i].runtime, inner |-> TRUE, how |-> "return"])
           /\ ActiveContext(stack[i].runtime) =
                  Some(NextHydrationContext(ContextAtCall(i)[1]))

----
\* The fragments in the registry of runtime r's session.
Registry(r) ==
    IF shared_context[r] = None THEN {}
    ELSE {shared_context[r][1].pending_fragments[k] :
             k \in DOMAIN shared_context[r][1].pending_fragments}

\* A fragment is in the registry, or was returned by one call, or was
\* replaced under its key before any call returned it.
ReturnedAtMostOnce ==
    \A i \in DOMAIN fragments :
        /\ fragments[i].returns <= 1
        /\ (fragments[i].rx = "registry") = (i \in Registry(fragments[i].scope.runtime))
        /\ (fragments[i].rx = "returned") = (fragments[i].returns = 1)
        /\ \A r \in Runtimes : i \in Registry(r) => r = fragments[i].scope.runtime

\* A call with a session returns what the registry holds and empties it.
CallDrains ==
    \A h \in Handles :
        (PendingFragments(h) /\ SessionIsSome(h)) =>
            /\ shared_context'[h.runtime] # None
            /\ shared_context'[h.runtime][1].pending_fragments = <<>>
            /\ \A i \in DOMAIN fragments :
                   IF i \in Registry(h.runtime)
                   THEN fragments'[i].rx = "returned" /\ fragments'[i].returns = 1
                   ELSE fragments'[i] = fragments[i]

\* A registration under a key puts the new fragment there, in place of the
\* one that was there.
RegistrationReplaces ==
    \A h \in Handles : \A k \in FragmentKeys : \A n \in 0..MaxPending :
        (RegisterSuspense(h, k, n) /\ SessionIsSome(h)) =>
            /\ Len(fragments') = Len(fragments) + 1
            /\ shared_context'[h.runtime][1].pending_fragments[k] = Len(fragments')
            /\ fragments'[Len(fragments')].rx = "registry"
            /\ \A i \in DOMAIN fragments :
                   IF InRegistry(SessionOf(h.runtime), k) = Some(i)
                   THEN fragments'[i].rx = "dropped" /\ fragments'[i].returns = 0
                   ELSE fragments'[i] = fragments[i]

\* C18: pending_fragments returns every fragment the registry holds and
\* leaves the registry empty, so that a fragment is returned by at most one
\* call and by exactly one once a call follows its registration, a call
\* that follows a call at once returns nothing, and a registration under a
\* key that is still in the registry replaces the fragment there.
C18_RegistryDrained ==
    /\ []ReturnedAtMostOnce
    /\ [][CallDrains]_vars
    /\ [][RegistrationReplaces]_vars

\* A fragment was replaced under its key, the one that replaced it was
\* returned by a call, and the registry is empty.
C18_Witness ==
    \E i, j \in DOMAIN fragments :
        /\ fragments[i].key = fragments[j].key
        /\ fragments[i].rx = "dropped"
        /\ fragments[j].rx = "returned"
        /\ Registry(fragments[j].scope.runtime) = {}

----
\* With no session on a runtime, nothing was registered through its
\* scopes: no fragment, no notifying effect, no resolver call.
NothingWithoutSession ==
    \A r \in Runtimes :
        shared_context[r] = None =>
            /\ \A i \in DOMAIN fragments : fragments[i].scope.runtime # r
            /\ \A e \in pushedEffects : e.scope.runtime # r

\* register_suspense and pending_fragments with no session change nothing.
DroppedSilently ==
    \A h \in Handles :
        shared_context[h.runtime] = None =>
            /\ \A k \in FragmentKeys : \A n \in 0..MaxPending :
                   RegisterSuspense(h, k, n) => UNCHANGED vars
            /\ PendingFragments(h) => UNCHANGED vars

\* next_hydration_key with no session creates one.
KeyCreatesSession ==
    \A h \in Handles :
        (NextHydrationKey(h) /\ shared_context[h.runtime] = None) =>
            shared_context'[h.runtime] # None

\* C20: with no session on the runtime, register_suspense creates none,
\* pushes no effect, registers no fragment and calls no resolver, and
\* pending_fragments returns nothing and creates none either, where
\* next_hydration_key creates the session.
C20_NoSessionNoRegistration ==
    /\ []NothingWithoutSession
    /\ [][DroppedSilently]_vars
    /\ [][KeyCreatesSession]_vars

\* Inside the closure of a live scope whose runtime has no session, where
\* both calls can be made and leave this very state.
C20_Witness ==
    \E h \in Handles :
        /\ UserPoint /\ stack # <<>>
        /\ Live(h.runtime, h.id)
        /\ shared_context[h.runtime] = None
        /\ fragments = <<>> /\ pushedEffects = {}

----
ChildrenList(h) == StateOf(h.runtime, h.id).children

\* child_scope on a live scope appends one id to its list.
ChildAppended ==
    \A h \in Handles :
        (ChildScope(h) /\ Live(h.runtime, h.id)) =>
            /\ Len(ChildrenList(h)') = Len(ChildrenList(h)) + 1
            /\ IsPrefix(ChildrenList(h), ChildrenList(h)')

\* The list of a scope that stays live only grows at its end.
ChildrenKept ==
    \A h \in Handles :
        (Live(h.runtime, h.id) /\ Live(h.runtime, h.id)') =>
            IsPrefix(ChildrenList(h), ChildrenList(h)')

\* In the disposal of a parent, the id of a child that is already disposed
\* is passed over: nothing but the parent's position in its list changes.
DisposedChildNoOp ==
    (DisposeChild /\ ~Live(Top.runtime, Head(Top.todo))) =>
        /\ panicked' = panicked
        /\ stack' = [stack EXCEPT ![Len(stack)].todo = Tail(@)]
        /\ slots' = slots

\* C19: the children list of a live scope is append-only: child_scope
\* appends one id, the disposal of a child leaves its id in the list of its
\* parent, and the disposal of the parent passes over the ids of children
\* that are already disposed.
C19_ChildrenAppendOnly ==
    /\ [][ChildAppended]_vars
    /\ [][ChildrenKept]_vars
    /\ [][DisposedChildNoOp]_vars

====
